---- MODULE Spec2Model ----
(***************************************************************************)
(* Model of the NFL data exporter (scripts/season_to_sqlite.py) and of the *)
(* Streamlit dashboard that launches it (streamlit_app.py).                *)
(*                                                                         *)
(* The database is the set of existing tables, the rows of every dataset   *)
(* table in insertion (rowid) order, the rows of ingest_metadata in        *)
(* insertion order, and the set of indexes.  One exporter run is a chain   *)
(* of steps: main's prologue, then per season eight fetches, the persist   *)
(* calls, the index block and the return to main, and at last main's       *)
(* batch write of the ledger rows.                                         *)
(*                                                                         *)
(* sqlite3/pandas transactions: the connection is in sqlite3's default     *)
(* mode, where a DELETE or INSERT opens a transaction and DDL does not.    *)
(* DataFrame.to_sql commits when it creates the table and when it inserts  *)
(* at least one row; with no row to insert and the table there it commits  *)
(* nothing, and persist's two DELETEs stay uncommitted until the next      *)
(* commit.  An exception leaving main's with block rolls back to the last  *)
(* commit.  db_* is what the connection sees, committed what the file      *)
(* holds.                                                                  *)
(*                                                                         *)
(* The provider is the black box of the specification: a fetch for a       *)
(* season raises, or returns a frame without columns, or a frame whose     *)
(* rows all carry that season.  Frames of one dataset have one schema, so  *)
(* to_sql and CREATE INDEX do not fail.                                    *)
(***************************************************************************)
EXTENDS Integers, Sequences, FiniteSets, TLC

\* ---------------------------------------------------------------- bounds
\* exporter runs in one behaviour
MaxRuns == 2
\* --season flags on one command line
MaxSeasonArgs == 2
\* provider data snapshots (the data of a season may change between runs)
MaxGen == 2
\* fetches of one behaviour that do not return a frame with rows
MaxFaults == 1
\* the same, in the behaviours of one single run (SpecOutage)
MaxOutage == 2

\* ------------------------------------------------------- program constants
ADV_STAT_TYPES == <<"pass", "rush", "rec", "def">>

\* nfl.get_current_season()
CurrentSeason == 2024

\* seasons given on the command line or picked in the dashboard
SeasonInputs == {CurrentSeason - 1, CurrentSeason}

\* the first season the dashboard offers: range(current_season, 1999 - 1, -1)
FirstSeason == 1999

\* season_options of the dashboard's multiselect
SeasonOptions == FirstSeason..CurrentSeason

\* (summary_level, advstats_summary) pairs given to a run
OptionInputs ==
    { [summary_level |-> "reg", advstats_summary |-> "week"],
      [summary_level |-> "week", advstats_summary |-> "season"] }

\* the fetches of export_season, in program order
DATASETS ==
    <<"team_stats", "schedules", "rosters", "injuries">> \o ADV_STAT_TYPES

REQUIRED == {"team_stats", "schedules"}

\* f"pfr_advstats_{stat_type}_{advstats_summary}"
AdvTableName(stat_type, advstats_summary) ==
    CASE stat_type = "pass" /\ advstats_summary = "week" -> "pfr_advstats_pass_week"
      [] stat_type = "rush" /\ advstats_summary = "week" -> "pfr_advstats_rush_week"
      [] stat_type = "rec" /\ advstats_summary = "week" -> "pfr_advstats_rec_week"
      [] stat_type = "def" /\ advstats_summary = "week" -> "pfr_advstats_def_week"
      [] stat_type = "pass" /\ advstats_summary = "season" -> "pfr_advstats_pass_season"
      [] stat_type = "rush" /\ advstats_summary = "season" -> "pfr_advstats_rush_season"
      [] stat_type = "rec" /\ advstats_summary = "season" -> "pfr_advstats_rec_season"
      [] stat_type = "def" /\ advstats_summary = "season" -> "pfr_advstats_def_season"

AdvStatSet == {ADV_STAT_TYPES[i] : i \in 1..Len(ADV_STAT_TYPES)}

\* the table a dataset of DATASETS is written to
TableOf(d, advstats_summary) ==
    IF d \in AdvStatSet THEN AdvTableName(d, advstats_summary) ELSE d

\* the summary recorded in the ledger row of a dataset
SummaryOf(d, summary_level, advstats_summary) ==
    IF d = "team_stats" THEN summary_level
    ELSE IF d \in AdvStatSet THEN advstats_summary
    ELSE "NULL"

TableNames ==
    {"team_stats", "schedules", "rosters", "injuries"}
        \cup {AdvTableName(st, a) : st \in AdvStatSet, a \in {"week", "season"}}

\* the index export_season creates on a table: four fixed names, and
\* f"idx_{table_name}_season" for the advanced-stat tables
IndexName(t) ==
    CASE t = "team_stats" -> "idx_team_stats_season_team"
      [] t = "schedules" -> "idx_schedules_season_week"
      [] t = "rosters" -> "idx_rosters_season_team"
      [] t = "injuries" -> "idx_injuries_season_week_team"
      [] t = "pfr_advstats_pass_week" -> "idx_pfr_advstats_pass_week_season"
      [] t = "pfr_advstats_rush_week" -> "idx_pfr_advstats_rush_week_season"
      [] t = "pfr_advstats_rec_week" -> "idx_pfr_advstats_rec_week_season"
      [] t = "pfr_advstats_def_week" -> "idx_pfr_advstats_def_week_season"
      [] t = "pfr_advstats_pass_season" -> "idx_pfr_advstats_pass_season_season"
      [] t = "pfr_advstats_rush_season" -> "idx_pfr_advstats_rush_season_season"
      [] t = "pfr_advstats_rec_season" -> "idx_pfr_advstats_rec_season_season"
      [] t = "pfr_advstats_def_season" -> "idx_pfr_advstats_def_season_season"

\* ------------------------------------------------------------------ frames
Unfetched == [kind |-> "unfetched", rows |-> <<>>]
\* try_load's None
NoneFrame == [kind |-> "none", rows |-> <<>>]
\* a frame with no rows and no columns
Columnless == [kind |-> "nocols", rows |-> <<>>]

\* the rows the provider holds for a season in data snapshot g: snapshot g
\* has g rows, and a later snapshot restates the earlier rows
ProviderRows(season, g) ==
    [i \in 1..g |-> [season |-> season, gen |-> g, n |-> i]]

FrameOf(rows) == [kind |-> "frame", rows |-> rows]

DatasetSet == {DATASETS[i] : i \in 1..Len(DATASETS)}

\* the locals of export_season before its first fetch
NoFrames == [d \in DatasetSet |-> Unfetched]

VARIABLES
    \* database, as the connection sees it
    db_exists, db_rows, ledger, indexes,
    \* database file: the last committed state, and whether a transaction is open
    committed, in_txn,
    \* the provider's data snapshot
    provider_gen,
    \* main
    pc, runs, seasons, si, opts, timestamp, all_metadata, exit_code, launched_by,
    \* export_season
    fi, frames, adv_tables, pi, metadata_rows, created_tables,
    \* dashboard
    dash_pc, dash_msg, dash_code, dash_click,
    \* the runs and the faulty fetches a behaviour may still take
    run_budget, fault_budget,
    \* history: the database when the run / the export_season call began,
    \* the fetches of the run so far, and the run before
    faults, run_start, season_start, run_log, prev_run

db == <<db_exists, db_rows, ledger, indexes>>
txn == <<committed, in_txn>>
mainv == <<pc, runs, seasons, si, opts, timestamp, all_metadata, exit_code, launched_by>>
exportv == <<fi, frames, adv_tables, pi, metadata_rows, created_tables>>
dashv == <<dash_pc, dash_msg, dash_code, dash_click>>
budgetv == <<run_budget, fault_budget>>
histv == <<faults, run_start, season_start, run_log, prev_run>>
vars == <<db, txn, provider_gen, mainv, exportv, dashv, budgetv, histv>>

\* ------------------------------------------------------------- SQL helpers
\* DELETE FROM ingest_metadata WHERE table_name = ? AND season = ?
DeleteLedger(rows, table_name, season) ==
    SelectSeq(rows, LAMBDA r : ~(r.table_name = table_name /\ r.season = season))

\* variant: the DELETE is lost, the season's old rows stay
DeleteSeasonKeeps(exists, rows, season) == rows

\* variant: DELETE FROM {table_name} without its WHERE clause
DeleteSeasonAll(exists, rows, season) == <<>>

\* DELETE FROM {table_name} WHERE season = ?  (OperationalError swallowed
\* when the table does not exist)
DeleteSeason(exists, rows, season) ==
    IF exists THEN SelectSeq(rows, LAMBDA r : r.season # season) ELSE <<>>

\* persist's two early returns: frame is None, or empty and without columns
Skipped(frame) ==
    \/ frame.kind = "none"
    \/ (Len(frame.rows) = 0 /\ frame.kind = "nocols")

LedgerRow(table_name, season, summary, ts) ==
    [table_name |-> table_name, season |-> season,
     summary_level |-> summary, ingested_at |-> ts]

DbSnapshot == [exists |-> db_exists, rows |-> db_rows, ledger |-> ledger, indexes |-> indexes]

\* conn.commit()
Commit ==
    /\ committed' = [exists |-> db_exists', rows |-> db_rows', ledger |-> ledger',
                     indexes |-> indexes']
    /\ in_txn' = FALSE

\* conn.rollback(), by the with block when an exception leaves it
Rollback ==
    /\ db_exists' = committed.exists
    /\ db_rows' = committed.rows
    /\ ledger' = committed.ledger
    /\ indexes' = committed.indexes
    /\ in_txn' = FALSE
    /\ UNCHANGED committed

\* DataFrame.to_sql(table, conn, if_exists="append") commits when it creates
\* the table or inserts rows
ToSqlCommits(exists, rows) == ~exists \/ Len(rows) > 0

NoRun == [seasons |-> <<>>, opts |-> [summary_level |-> "reg", advstats_summary |-> "week"],
          log |-> <<>>, exit_code |-> 1, rows |-> [t \in TableNames |-> <<>>]]

\* ------------------------------------------------------------------- Init
\* a fresh database file, no run yet
Fresh ==
    /\ db_exists = {}
    /\ db_rows = [t \in TableNames |-> <<>>]
    /\ ledger = <<>>
    /\ indexes = {}
    /\ committed = DbSnapshot
    /\ in_txn = FALSE
    /\ provider_gen = 1
    /\ pc = "idle"
    /\ runs = 0
    /\ seasons = <<>>
    /\ si = 1
    /\ opts = [summary_level |-> "reg", advstats_summary |-> "week"]
    /\ timestamp = 0
    /\ all_metadata = <<>>
    /\ exit_code = 0
    /\ launched_by = "cli"
    /\ fi = 1
    /\ frames = NoFrames
    /\ adv_tables = <<>>
    /\ pi = 1
    /\ metadata_rows = <<>>
    /\ created_tables = {}
    /\ dash_pc = "idle"
    /\ dash_msg = "none"
    /\ dash_code = 0
    /\ dash_click = [selected |-> {}, script_exists |-> FALSE, runs |-> 0]
    /\ faults = 0
    /\ run_start = DbSnapshot
    /\ season_start = DbSnapshot
    /\ run_log = <<>>
    /\ prev_run = NoRun

Init == Fresh /\ run_budget = MaxRuns /\ fault_budget = MaxFaults

\* ---- the database after a first run, `--season 2023 --season 2024` with
\* the default options, in which the provider answered every fetch with rows
FirstRunSeasons == <<CurrentSeason - 1, CurrentSeason>>
FirstRunOpts == [summary_level |-> "reg", advstats_summary |-> "week"]
FirstRunTables == {TableOf(d, FirstRunOpts.advstats_summary) : d \in DatasetSet}

FirstRunLog ==
    [i \in 1..2 |->
        [season |-> FirstRunSeasons[i],
         frames |-> [d \in DatasetSet |-> FrameOf(ProviderRows(FirstRunSeasons[i], 1))]]]

FirstRunLedger ==
    [k \in 1..(2 * Len(DATASETS)) |->
        LET d == DATASETS[((k - 1) % Len(DATASETS)) + 1]
            season == FirstRunSeasons[((k - 1) \div Len(DATASETS)) + 1]
        IN LedgerRow(TableOf(d, FirstRunOpts.advstats_summary), season,
                     SummaryOf(d, FirstRunOpts.summary_level, FirstRunOpts.advstats_summary),
                     1)]

FirstRunDb ==
    [exists |-> FirstRunTables \cup {"ingest_metadata"},
     rows |-> [t \in TableNames |->
                 IF t \in FirstRunTables
                 THEN ProviderRows(FirstRunSeasons[1], 1) \o ProviderRows(FirstRunSeasons[2], 1)
                 ELSE <<>>],
     ledger |-> FirstRunLedger,
     indexes |-> {IndexName(t) : t \in FirstRunTables}]

\* the state in which that first run has exited
AfterFirstRun ==
    /\ DbSnapshot = FirstRunDb
    /\ committed = FirstRunDb
    /\ in_txn = FALSE
    /\ provider_gen = 1
    /\ pc = "exited"
    /\ runs = 1
    /\ seasons = FirstRunSeasons
    /\ si = 2
    /\ opts = FirstRunOpts
    /\ timestamp = 1
    /\ all_metadata = FirstRunLedger
    /\ exit_code = 0
    /\ launched_by = "cli"
    /\ fi = 1
    /\ frames = NoFrames
    /\ adv_tables = <<>>
    /\ pi = 1
    /\ metadata_rows = <<>>
    /\ created_tables = {}
    /\ dash_pc = "idle"
    /\ dash_msg = "none"
    /\ dash_code = 0
    /\ dash_click = [selected |-> {}, script_exists |-> FALSE, runs |-> 0]
    /\ faults = 0
    /\ run_start = [exists |-> {"ingest_metadata"}, rows |-> [t \in TableNames |-> <<>>],
                    ledger |-> <<>>, indexes |-> {}]
    /\ season_start =
          [FirstRunDb EXCEPT
              !.rows = [t \in TableNames |->
                           IF t \in FirstRunTables
                           THEN ProviderRows(FirstRunSeasons[1], 1) ELSE <<>>],
              !.ledger = <<>>]
    /\ run_log = FirstRunLog
    /\ prev_run = NoRun

\* one more run on that database, in which several fetches may fail
InitOutage ==
    /\ db_exists = FirstRunDb.exists
    /\ db_rows = FirstRunDb.rows
    /\ ledger = FirstRunDb.ledger
    /\ indexes = FirstRunDb.indexes
    /\ AfterFirstRun
    /\ run_budget = 2
    /\ fault_budget = MaxOutage

\* ------------------------------------------------------------------- main
\* every sequence over S of length 0..n
SeqsUpTo(S, n) == UNION {[1..k -> S] : k \in 0..n}

\* main, lines 159-170, and the entry of the first export_season call
BeginRun(args, o, by) ==
    /\ pc \in {"idle", "exited"}
    /\ runs < run_budget
    /\ runs' = runs + 1
    /\ seasons' = IF args = <<>> THEN <<CurrentSeason>> ELSE args
    /\ opts' = o
    /\ timestamp' = runs + 1
    /\ db_exists' = db_exists \cup {"ingest_metadata"}
    /\ all_metadata' = <<>>
    /\ si' = 1
    /\ launched_by' = by
    /\ pc' = "fetch"
    /\ fi' = 1
    /\ frames' = NoFrames
    /\ adv_tables' = <<>>
    /\ pi' = 1
    /\ metadata_rows' = <<>>
    /\ created_tables' = {}
    /\ UNCHANGED <<faults, budgetv>>
    /\ run_start' = [DbSnapshot EXCEPT !.exists = db_exists']
    /\ season_start' = [DbSnapshot EXCEPT !.exists = db_exists']
    /\ run_log' = <<>>
    /\ prev_run' = IF runs = 0 THEN NoRun
                   ELSE [seasons |-> seasons, opts |-> opts, log |-> run_log,
                         exit_code |-> exit_code, rows |-> db_rows]
    /\ UNCHANGED <<db_rows, ledger, indexes, provider_gen, exit_code>>
    /\ Commit

\* python scripts/season_to_sqlite.py [--season N]... from a shell
RunFromShell ==
    /\ dash_pc = "idle"
    /\ \E args \in SeqsUpTo(SeasonInputs, MaxSeasonArgs), o \in OptionInputs :
           BeginRun(args, o, "cli")
    /\ UNCHANGED dashv

\* the provider publishes new data between two runs
ProviderUpdate ==
    /\ pc \in {"idle", "exited"}
    /\ provider_gen < MaxGen
    /\ provider_gen' = provider_gen + 1
    /\ UNCHANGED <<db, txn, mainv, exportv, dashv, budgetv, histv>>

\* ---------------------------------------------------------- export_season
Season == seasons[si]

\* what a fetch that does not raise may return for the season
ProviderFrames(season) ==
    {Columnless, FrameOf(<<>>), FrameOf(ProviderRows(season, provider_gen))}

\* a frame with at least one row is the provider's normal answer
Nominal(frame) == frame.kind = "frame" /\ Len(frame.rows) > 0

\* variant: the persist calls begin as soon as team stats are loaded
AfterFetchEarly(newFrames) ==
    /\ fi' = fi + 1
    /\ pc' = "persist"
    /\ run_log' = Append(run_log, [season |-> Season, frames |-> newFrames])

\* the fetch phase moves on: the next fetch, or the first persist call
AfterFetch(newFrames) ==
    /\ fi' = fi + 1
    /\ pc' = IF fi = Len(DATASETS) THEN "persist" ELSE "fetch"
    /\ run_log' = IF fi = Len(DATASETS)
                  THEN Append(run_log, [season |-> Season, frames |-> newFrames])
                  ELSE run_log

\* variant: the required loaders go through try_load as well
FetchRequiredCaught ==
    /\ pc = "fetch"
    /\ DATASETS[fi] \in REQUIRED
    /\ faults < fault_budget
    /\ faults' = faults + 1
    /\ frames' = [frames EXCEPT ![DATASETS[fi]] = NoneFrame]
    /\ AfterFetch(frames')
    /\ UNCHANGED <<db, txn, provider_gen, runs, seasons, si, opts, timestamp, all_metadata,
                   exit_code, launched_by, adv_tables, pi, metadata_rows, created_tables,
                   dashv, budgetv, run_start, season_start, prev_run>>

\* variant: an optional loader is called without try_load
FetchOptionalUncaught ==
    /\ pc = "fetch"
    /\ DATASETS[fi] \notin REQUIRED
    /\ faults < fault_budget
    /\ faults' = faults + 1
    /\ pc' = "exited"
    /\ exit_code' = 1
    /\ run_log' = Append(run_log, [season |-> Season,
                                   frames |-> [frames EXCEPT ![DATASETS[fi]] = NoneFrame]])
    /\ Rollback
    /\ UNCHANGED <<provider_gen, runs, seasons, si, opts, timestamp, all_metadata,
                   launched_by, exportv, dashv, budgetv, run_start, season_start, prev_run>>

\* lines 71-72: a required loader raises; nothing catches it, the with block
\* rolls back (nothing is uncommitted) and the interpreter exits with 1
FetchRequiredRaises ==
    /\ pc = "fetch"
    /\ DATASETS[fi] \in REQUIRED
    /\ faults < fault_budget
    /\ faults' = faults + 1
    /\ pc' = "exited"
    /\ exit_code' = 1
    /\ run_log' = Append(run_log, [season |-> Season,
                                   frames |-> [frames EXCEPT ![DATASETS[fi]] = NoneFrame]])
    /\ Rollback
    /\ UNCHANGED <<provider_gen, runs, seasons, si, opts, timestamp, all_metadata,
                   launched_by, exportv, dashv, budgetv, run_start, season_start, prev_run>>

\* try_load, lines 57-59: an optional loader raises and None is returned
FetchOptionalRaises ==
    /\ pc = "fetch"
    /\ DATASETS[fi] \notin REQUIRED
    /\ faults < fault_budget
    /\ faults' = faults + 1
    /\ frames' = [frames EXCEPT ![DATASETS[fi]] = NoneFrame]
    /\ AfterFetch(frames')
    /\ UNCHANGED <<db, txn, provider_gen, runs, seasons, si, opts, timestamp, all_metadata,
                   exit_code, launched_by, adv_tables, pi, metadata_rows, created_tables,
                   dashv, budgetv, run_start, season_start, prev_run>>

\* lines 71-86: a loader returns a frame; an advanced-stat frame is
\* entered in adv_tables
FetchReturns ==
    /\ pc = "fetch"
    /\ \E f \in ProviderFrames(Season) :
          /\ Nominal(f) \/ faults < fault_budget
          /\ faults' = IF Nominal(f) THEN faults ELSE faults + 1
          /\ frames' = [frames EXCEPT ![DATASETS[fi]] = f]
    /\ adv_tables' = IF DATASETS[fi] \in AdvStatSet
                     THEN Append(adv_tables, DATASETS[fi]) ELSE adv_tables
    /\ AfterFetch(frames')
    /\ UNCHANGED <<db, txn, provider_gen, runs, seasons, si, opts, timestamp, all_metadata,
                   exit_code, launched_by, pi, metadata_rows, created_tables,
                   dashv, budgetv, run_start, season_start, prev_run>>

\* lines 124-130: the persist calls in order, the four fixed ones and then
\* adv_tables.items()
PersistCalls == SubSeq(DATASETS, 1, 4) \o adv_tables

\* persist, lines 96-122
Persist ==
    /\ pc = "persist"
    /\ LET d == PersistCalls[pi]
           t == TableOf(d, opts.advstats_summary)
           frame == frames[d]
       IN IF Skipped(frame)
          THEN UNCHANGED <<db, txn, metadata_rows, created_tables>>
          ELSE /\ ledger' = DeleteLedger(ledger, t, Season)
               /\ db_rows' = [db_rows EXCEPT ![t] =
                                 DeleteSeason(t \in db_exists, db_rows[t], Season) \o frame.rows]
               /\ db_exists' = db_exists \cup {t}
               /\ metadata_rows' = Append(metadata_rows,
                      LedgerRow(t, Season,
                                SummaryOf(d, opts.summary_level, opts.advstats_summary),
                                timestamp))
               /\ created_tables' = created_tables \cup {t}
               /\ UNCHANGED indexes
               /\ IF ToSqlCommits(t \in db_exists, frame.rows)
                  THEN Commit
                  ELSE in_txn' = TRUE /\ UNCHANGED committed
    /\ pi' = pi + 1
    /\ pc' = IF pi = Len(PersistCalls) THEN "index" ELSE "persist"
    /\ UNCHANGED <<provider_gen, runs, seasons, si, opts, timestamp, all_metadata,
                   exit_code, launched_by, fi, frames, adv_tables, dashv, budgetv, histv>>

\* variant: all_metadata = metadata_rows
ExtendOverwrite(all, rows) == rows

\* all_metadata.extend(metadata_rows)
Extend(all, rows) == all \o rows

\* lines 132-155 and main's lines 171-179: the indexes of the tables this
\* call created, the return, all_metadata.extend and the next season's entry
FinishSeason ==
    /\ pc = "index"
    /\ indexes' = indexes \cup {IndexName(t) : t \in created_tables}
    /\ all_metadata' = Extend(all_metadata, metadata_rows)
    /\ IF si < Len(seasons)
       THEN /\ si' = si + 1
            /\ pc' = "fetch"
            /\ season_start' = [DbSnapshot EXCEPT !.indexes = indexes']
       ELSE /\ pc' = "batch"
            /\ UNCHANGED <<si, season_start>>
    /\ fi' = 1
    /\ frames' = NoFrames
    /\ adv_tables' = <<>>
    /\ pi' = 1
    /\ metadata_rows' = <<>>
    /\ created_tables' = {}
    /\ UNCHANGED <<db_exists, db_rows, ledger, provider_gen, runs, seasons, opts,
                   timestamp, exit_code, launched_by, dashv, budgetv, faults, run_start,
                   run_log, prev_run>>
    /\ IF in_txn THEN UNCHANGED txn ELSE Commit

\* main, lines 181-186: the ledger rows of the run in one to_sql, then exit 0
WriteLedger ==
    /\ pc = "batch"
    /\ ledger' = IF all_metadata # <<>> THEN ledger \o all_metadata ELSE ledger
    /\ pc' = "exited"
    /\ exit_code' = 0
    /\ UNCHANGED <<db_exists, db_rows, indexes, provider_gen, runs, seasons, si, opts,
                   timestamp, all_metadata, launched_by, exportv, dashv, budgetv, histv>>
    /\ Commit

\* -------------------------------------------------------------- dashboard
RECURSIVE SortedSeq(_)
\* sorted(selected_seasons)
SortedSeq(S) ==
    IF S = {} THEN <<>>
    ELSE LET m == CHOOSE x \in S : \A y \in S : x <= y
         IN <<m>> \o SortedSeq(S \ {m})

\* variant: the handler does not look for the script
ShouldLaunchNoScriptCheck(selected, script_exists) == selected # {}

\* lines 51-58: the handler reaches subprocess.run
ShouldLaunch(selected, script_exists) == selected # {} /\ script_exists

\* lines 73-76: what the handler shows for a return code
StatusFor(returncode) == IF returncode = 0 THEN "success" ELSE "failed"

\* the Refresh Data button, lines 50-71: a warning, an error, or the
\* exporter started as a subprocess with the sorted seasons
Refresh ==
    /\ dash_pc = "idle"
    /\ pc \in {"idle", "exited"}
    /\ \E selected \in SUBSET (SeasonInputs \cap SeasonOptions),
          script_exists \in BOOLEAN, o \in OptionInputs :
          /\ dash_click' = [selected |-> selected, script_exists |-> script_exists,
                            runs |-> runs]
          /\ IF ShouldLaunch(selected, script_exists)
             THEN /\ BeginRun(SortedSeq(selected), o, "dashboard")
                  /\ dash_pc' = "waiting"
                  /\ dash_msg' = "info"
                  /\ UNCHANGED dash_code
             ELSE /\ dash_msg' = IF selected = {} THEN "warning" ELSE "error_missing"
                  /\ UNCHANGED <<db, txn, provider_gen, mainv, exportv, budgetv, histv,
                                 dash_pc, dash_code>>

\* lines 66-76: subprocess.run returns and the handler reports
DashReport ==
    /\ dash_pc = "waiting"
    /\ pc = "exited"
    /\ dash_msg' = StatusFor(exit_code)
    /\ dash_code' = exit_code
    /\ dash_pc' = "idle"
    /\ UNCHANGED <<db, txn, provider_gen, mainv, exportv, budgetv, histv, dash_click>>

\* ---------------------------------------------------------- specifications
Exporter ==
    \/ FetchRequiredRaises
    \/ FetchOptionalRaises
    \/ FetchReturns
    \/ Persist
    \/ FinishSeason
    \/ WriteLedger

\* the exporter run from a shell
Next == RunFromShell \/ ProviderUpdate \/ Exporter

Spec == Init /\ [][Next]_vars

\* one run from a shell with up to MaxOutage faulty fetches
SpecOutage == InitOutage /\ [][Next]_vars

\* the exporter run from the dashboard
NextDash == Refresh \/ DashReport \/ ProviderUpdate \/ Exporter

SpecDash == Init /\ [][NextDash]_vars

\* ------------------------------------------------------ claims: vocabulary
\* the rows of one season in a table
SeasonRows(rows, season) == SelectSeq(rows, LAMBDA r : r.season = season)

\* a fetch that gave nothing to write: it raised and try_load returned None,
\* or the frame has no rows and no columns
NoData(frame) == frame.kind \in {"none", "nocols"}

Running == pc \in {"fetch", "persist", "index", "batch"}
Completed == pc = "exited" /\ runs > 0 /\ exit_code = 0
Aborted == pc = "exited" /\ runs > 0 /\ exit_code # 0

\* the export_season calls of the current run that reached their persist
\* calls: every logged call, but the last one of an aborted run
PersistedCalls ==
    IF Aborted THEN 1..(Len(run_log) - 1) ELSE 1..Len(run_log)

\* dataset d of logged call i was written to its table
Wrote(log, i, d) == ~NoData(log[i].frames[d])

\* the (table_name, season) pairs the current run wrote to a dataset table
WrittenPairs ==
    { <<TableOf(d, opts.advstats_summary), run_log[i].season>> :
        <<i, d>> \in {x \in PersistedCalls \X DatasetSet : Wrote(run_log, x[1], x[2])} }

\* the ledger rows of one pair
PairRows(rows, table_name, season) ==
    SelectSeq(rows, LAMBDA r : r.table_name = table_name /\ r.season = season)

\* the ledger rows one logged export_season call hands back, in persist order
RECURSIVE CallRows(_, _, _, _)
CallRows(entry, o, ts, k) ==
    IF k > Len(DATASETS) THEN <<>>
    ELSE LET d == DATASETS[k]
         IN (IF NoData(entry.frames[d]) THEN <<>>
             ELSE <<LedgerRow(TableOf(d, o.advstats_summary), entry.season,
                              SummaryOf(d, o.summary_level, o.advstats_summary), ts)>>)
            \o CallRows(entry, o, ts, k + 1)

\* the ledger rows of the calls log[1..n], in season-processing order
RECURSIVE ExpectedRows(_, _, _, _)
ExpectedRows(log, o, ts, n) ==
    IF n <= 0 THEN <<>>
    ELSE ExpectedRows(log, o, ts, n - 1) \o CallRows(log[n], o, ts, 1)

\* ---------------------------------------------------------------------- C1
\* C1 (as stated): after every completed run, ingest_metadata holds exactly
\* one row for every (table_name, season) pair the run persisted, for every
\* list of requested seasons.
C1_LedgerExactlyOne ==
    Completed =>
        \A p \in WrittenPairs : Len(PairRows(ledger, p[1], p[2])) = 1

\* no season is requested twice in the current run
DistinctSeasons == \A i, j \in 1..Len(seasons) : seasons[i] = seasons[j] => i = j

\* what does hold: exactly one row when no season is requested twice
C1_HoldsForDistinctSeasons ==
    Completed /\ DistinctSeasons =>
        \A p \in WrittenPairs : Len(PairRows(ledger, p[1], p[2])) = 1

\* ---------------------------------------------------------------------- C8
\* C8 (as stated): when a run has ended, completed or aborted, every
\* (table_name, season) pair whose rows the run wrote has a ledger row.
C8_LedgerCoversPersisted ==
    pc = "exited" /\ runs > 0 =>
        \A i \in PersistedCalls : \A d \in DatasetSet :
            Len(run_log[i].frames[d].rows) > 0 =>
                /\ SeasonRows(db_rows[TableOf(d, opts.advstats_summary)], run_log[i].season)
                       # <<>>
                /\ PairRows(ledger, TableOf(d, opts.advstats_summary), run_log[i].season)
                       # <<>>

\* what does hold: the ledger covers what a completed run wrote
C8_HoldsForCompletedRuns ==
    Completed =>
        \A p \in WrittenPairs : Len(PairRows(ledger, p[1], p[2])) >= 1

\* ---------------------------------------------------------------------- C9
\* C9: while a run is under way, and after one that aborted, ingest_metadata
\* holds no row of that run; a completed run leaves the ledger as the rows
\* that survived its deletes followed by one batch, the rows of its
\* export_season calls in season-processing order, each with the timestamp
\* taken before the first season; with nothing persisted the ledger gets no
\* row.
C9_DeferredLedgerWrite ==
    /\ Running \/ Aborted =>
          /\ timestamp = runs
          /\ \A i \in 1..Len(ledger) : ledger[i].ingested_at # timestamp
    /\ pc = "batch" \/ Completed =>
          all_metadata = ExpectedRows(run_log, opts, timestamp, Len(run_log))
    /\ Completed =>
          ledger =
             SelectSeq(run_start.ledger,
                       LAMBDA r : <<r.table_name, r.season>> \notin WrittenPairs)
             \o ExpectedRows(run_log, opts, timestamp, Len(run_log))

C9_Witness ==
    /\ Completed
    /\ Len(seasons) = 2
    /\ seasons[1] # seasons[2]
    /\ \E i, j \in 1..Len(ledger) :
          /\ i < j
          /\ ledger[i].ingested_at = runs /\ ledger[j].ingested_at = runs
          /\ ledger[i].season = seasons[1] /\ ledger[j].season = seasons[2]
    /\ \E i \in 1..Len(ledger) : ledger[i].ingested_at < runs

\* ---------------------------------------------------------------------- C5
\* C5: a required fetch (team stats, schedules) that raises ends the run
\* with a non-zero exit at that season: no later season is processed, and
\* ingest_metadata holds no row written by the run, so none for any dataset
\* of the failing season.
C5_RequiredFetchFatal ==
    /\ \A i \in 1..Len(run_log) : \A d \in REQUIRED :
          run_log[i].frames[d].kind = "none" =>
              Aborted /\ i = Len(run_log) /\ i = si
    /\ Aborted =>
          /\ Len(run_log) = si
          /\ \E d \in REQUIRED : run_log[si].frames[d].kind = "none"
          /\ \A i \in 1..Len(ledger) : ledger[i].ingested_at # timestamp
          /\ all_metadata = ExpectedRows(run_log, opts, timestamp, si - 1)
          /\ DbSnapshot = committed

C5_Witness ==
    /\ Aborted
    /\ runs = 2
    /\ si = 1
    /\ Len(seasons) = 2
    /\ seasons[1] # seasons[2]
    /\ frames["team_stats"].kind = "frame"
    /\ PairRows(ledger, "team_stats", seasons[1]) # <<>>
    /\ PairRows(ledger, "team_stats", seasons[2]) # <<>>

\* --------------------------------------------------------------------- C10
\* the fetches of a season come in the order of DATASETS and before its
\* first write, and the seasons are taken in input order
FetchOrder ==
    /\ pc = "fetch" =>
          /\ DbSnapshot = season_start
          /\ metadata_rows = <<>> /\ created_tables = {}
          /\ \A k \in 1..Len(DATASETS) :
                (frames[DATASETS[k]].kind # "unfetched") <=> (k < fi)
          /\ Len(run_log) = si - 1
    /\ pc \in {"persist", "index"} =>
          /\ \A d \in DatasetSet : frames[d].kind # "unfetched"
          /\ Len(run_log) = si
    /\ runs > 0 => \A i \in 1..Len(run_log) : run_log[i].season = seasons[i]

\* the rows of season s in every table and in the ledger are those of snapshot
SameSeasonContent(snapshot, s) ==
    /\ \A t \in TableNames : SeasonRows(db_rows[t], s) = SeasonRows(snapshot.rows[t], s)
    /\ SelectSeq(ledger, LAMBDA r : r.season = s)
          = SelectSeq(snapshot.ledger, LAMBDA r : r.season = s)

\* C10 (as stated): the fetches of a season happen in the order team stats,
\* schedules, rosters, injuries, pass, rush, rec, def, all of them before the
\* first delete or insert of that season, and the seasons are taken in input
\* order; so when a required fetch raises for season S the run has deleted
\* and inserted no table row and no ledger row of season S.
C10_FetchBeforeWrite ==
    /\ FetchOrder
    /\ Aborted => SameSeasonContent(run_start, seasons[si])

\* what does hold: the order of the fetches, and the content of the failing
\* season is untouched when that season was not requested earlier in the list
C10_HoldsForFirstOccurrence ==
    /\ FetchOrder
    /\ Aborted /\ (\A i \in 1..(si - 1) : seasons[i] # seasons[si]) =>
          SameSeasonContent(run_start, seasons[si])

\* ---------------------------------------------------------------------- C3
\* C3: while export_season(S) persists, every table holds the rows of every
\* other season that it held when the call began, and ingest_metadata holds
\* the rows of every pair other than (a table persisted by this call, S)
\* that it held then.
C3_OtherSeasonsUntouched ==
    pc \in {"persist", "index"} =>
        /\ \A t \in TableNames :
              SelectSeq(db_rows[t], LAMBDA r : r.season # Season)
                  = SelectSeq(season_start.rows[t], LAMBDA r : r.season # Season)
        /\ SelectSeq(ledger,
                     LAMBDA r : ~(r.table_name \in created_tables /\ r.season = Season))
              = SelectSeq(season_start.ledger,
                     LAMBDA r : ~(r.table_name \in created_tables /\ r.season = Season))

C3_Witness ==
    /\ pc = "index"
    /\ \E t \in created_tables :
          /\ SeasonRows(season_start.rows[t], Season) # <<>>
          /\ SeasonRows(db_rows[t], Season) # SeasonRows(season_start.rows[t], Season)
          /\ \E i \in 1..Len(db_rows[t]) : db_rows[t][i].season # Season
          /\ PairRows(season_start.ledger, t, Season) # <<>>
          /\ \E i \in 1..Len(ledger) :
                ledger[i].table_name = t /\ ledger[i].season # Season

\* ---------------------------------------------------------------------- C6
\* when the persist calls of a season are done, a dataset whose frame is None
\* or has no rows and no columns has its table, the pair's ledger rows and
\* metadata_rows as they were when the call began, and is not in
\* created_tables, so the call creates no index for it
SkipLeavesCallUntouched ==
    pc = "index" =>
        \A d \in DatasetSet :
            NoData(frames[d]) =>
                LET t == TableOf(d, opts.advstats_summary)
                IN /\ t \notin created_tables
                   /\ db_rows[t] = season_start.rows[t]
                   /\ (t \in db_exists) = (t \in season_start.exists)
                   /\ PairRows(ledger, t, Season) = PairRows(season_start.ledger, t, Season)
                   /\ \A i \in 1..Len(metadata_rows) : metadata_rows[i].table_name # t

\* C6 (as stated): a dataset whose frame for season S is None or has no rows
\* and no columns is left alone by persist (no delete, no insert, no ledger
\* row, no index from this call), so after the completed run the table's
\* rows of S and the ledger rows of (table, S) are those from before the run.
C6_SkipIsNoOp ==
    /\ SkipLeavesCallUntouched
    /\ Completed =>
          \A i \in 1..Len(run_log) : \A d \in DatasetSet :
              NoData(run_log[i].frames[d]) =>
                  LET t == TableOf(d, opts.advstats_summary)
                      s == run_log[i].season
                  IN /\ SeasonRows(db_rows[t], s) = SeasonRows(run_start.rows[t], s)
                     /\ PairRows(ledger, t, s) = PairRows(run_start.ledger, t, s)

\* dataset d was skipped in every export_season call of the run for season s
NoDataThroughout(d, s) ==
    \A i \in 1..Len(run_log) :
        run_log[i].season = s => NoData(run_log[i].frames[d])

\* what does hold: the call leaves a skipped dataset alone, and after a
\* completed run the rows and ledger rows of a pair skipped in every call for
\* its season are those from before the run; a table skipped in every call
\* has no index it did not have
C6_HoldsWhenSkippedInEveryCall ==
    /\ SkipLeavesCallUntouched
    /\ Completed =>
          \A d \in DatasetSet :
              LET t == TableOf(d, opts.advstats_summary)
              IN /\ \A i \in 1..Len(seasons) :
                       NoDataThroughout(d, seasons[i]) =>
                           /\ SeasonRows(db_rows[t], seasons[i])
                                  = SeasonRows(run_start.rows[t], seasons[i])
                           /\ PairRows(ledger, t, seasons[i])
                                  = PairRows(run_start.ledger, t, seasons[i])
                 /\ (\A i \in 1..Len(seasons) : NoDataThroughout(d, seasons[i])) =>
                       /\ (IndexName(t) \in indexes) = (IndexName(t) \in run_start.indexes)
                       /\ (t \in db_exists) = (t \in run_start.exists)

\* what does hold: the statement of C6 for lists without a repeated season
C6_HoldsForDistinctSeasons ==
    DistinctSeasons => C6_SkipIsNoOp

\* ---------------------------------------------------------------------- C2
\* the run that has just completed repeats the completed run before it:
\* the same seasons, the same options, the same frames from the provider
Repeated ==
    /\ Completed
    /\ prev_run.exit_code = 0
    /\ prev_run.opts = opts
    /\ prev_run.log = run_log

\* the last call of the log that wrote dataset d for season s (0: none)
LastWrite(log, d, s) ==
    LET W == {i \in 1..Len(log) : log[i].season = s /\ Wrote(log, i, d)}
    IN IF W = {} THEN 0 ELSE CHOOSE i \in W : \A j \in W : j <= i

\* C2: after a completed run repeated back-to-back with the same options and
\* the same frames, every dataset table holds for every exported season the
\* rows it held after the first run, and these are one copy of the rows
\* fetched for it.
C2_IdempotentOverwrite ==
    Repeated =>
        \A i \in 1..Len(run_log) : \A d \in DatasetSet :
            LET t == TableOf(d, opts.advstats_summary)
                s == run_log[i].season
                w == LastWrite(run_log, d, s)
            IN /\ SeasonRows(db_rows[t], s) = SeasonRows(prev_run.rows[t], s)
               /\ w # 0 => SeasonRows(db_rows[t], s) = run_log[w].frames[d].rows

C2_Witness ==
    /\ Repeated
    /\ Len(run_log) = 2
    /\ \A d \in DatasetSet :
          Len(SeasonRows(db_rows[TableOf(d, opts.advstats_summary)], run_log[1].season)) > 0

\* ---------------------------------------------------------------------- C4
Optional == DatasetSet \ REQUIRED

\* C4: a run ends with a non-zero exit only when a required fetch raised,
\* and while it runs it can always take its next step, whatever optional
\* fetches raised; when the persist calls of a season are done, every
\* dataset fetched with a frame that has columns holds exactly that frame's
\* rows for the season, its old ledger rows are gone and its new ledger row
\* is recorded once; the ledger of the completed run holds that row.
C4_OptionalFailureRecoverable ==
    /\ Aborted => \E d \in REQUIRED : run_log[Len(run_log)].frames[d].kind = "none"
    /\ Running => ENABLED Exporter
    /\ pc = "index" =>
          \A d \in DatasetSet :
              ~NoData(frames[d]) =>
                  LET t == TableOf(d, opts.advstats_summary)
                      row == LedgerRow(t, Season,
                                 SummaryOf(d, opts.summary_level, opts.advstats_summary),
                                 timestamp)
                  IN /\ SeasonRows(db_rows[t], Season) = frames[d].rows
                     /\ t \in db_exists
                     /\ PairRows(ledger, t, Season) = <<>>
                     /\ PairRows(metadata_rows, t, Season) = <<row>>
    /\ Completed =>
          \A p \in WrittenPairs :
              \E i \in 1..Len(ledger) :
                  /\ ledger[i].table_name = p[1] /\ ledger[i].season = p[2]
                  /\ ledger[i].ingested_at = timestamp

C4_Witness ==
    /\ Completed
    /\ runs = 2
    /\ \E d1, d2, d3 \in Optional :
          /\ d1 # d2
          /\ run_log[1].frames[d1].kind = "none"
          /\ run_log[1].frames[d2].kind = "none"
          /\ Len(run_log[1].frames[d3].rows) > 0
          /\ SeasonRows(db_rows[TableOf(d3, opts.advstats_summary)], seasons[1])
                 = run_log[1].frames[d3].rows
          /\ Len(seasons) = 1
          /\ PairRows(ledger, TableOf(d3, opts.advstats_summary), seasons[1]) # <<>>

\* ---------------------------------------------------------------------- C7
\* the last click on Refresh Data started the exporter
Started == runs > dash_click.runs

\* C7: the dashboard starts the exporter only with at least one season
\* selected and the script present, and then with the sorted selection;
\* otherwise it shows the warning or the error and starts nothing; once the
\* subprocess has returned it shows success exactly when the exit code is 0
\* and the failure with the exit code otherwise.
C7_DashboardGating ==
    /\ Started =>
          /\ dash_click.selected # {} /\ dash_click.script_exists
          /\ runs = dash_click.runs + 1
          /\ launched_by = "dashboard"
          /\ seasons = SortedSeq(dash_click.selected)
          /\ dash_msg \in {"info", "success", "failed"}
    /\ ~Started =>
          /\ dash_pc = "idle"
          /\ dash_msg \in {"none", "warning", "error_missing"}
          /\ dash_msg = "warning" => dash_click.selected = {}
          /\ dash_msg = "error_missing" => ~dash_click.script_exists
    /\ dash_pc = "waiting" => dash_msg = "info"
    /\ Started /\ dash_pc = "idle" =>
          /\ pc = "exited"
          /\ (dash_msg = "success") <=> (exit_code = 0)
          /\ exit_code # 0 => dash_msg = "failed" /\ dash_code = exit_code

C7_Witness ==
    /\ Started
    /\ dash_pc = "idle"
    /\ dash_msg = "failed"
    /\ dash_code = 1
    /\ Cardinality(dash_click.selected) = 2

====
